---- MODULE Spec2Model ----
(***************************************************************************)
(* Black-Scholes pricing engine of src/general.py: black_scholes_call,     *)
(* black_scholes_put and calculate_greeks.                                 *)
(*                                                                         *)
(* Numbers.  A Python/numpy float is a record [k, v]: k = "fin" is a       *)
(* finite value v / Scale (fixed point, rounded toward zero after every    *)
(* multiplication and division, as a float rounds after every operation),  *)
(* "nz" is the negative zero, and "nan", "pinf", "ninf" are the IEEE       *)
(* special values that numpy produces (with a RuntimeWarning, not an       *)
(* exception) for log(0), sqrt(-1), x / 0.0 and the like.                  *)
(***************************************************************************)
EXTENDS Integers, Sequences, FiniteSets, TLC

\* Precision of the fixed-point numbers: Scale = 2 * HalfScale units per 1.0.
\* Scale is even so that 0.5 is exact, as it is in binary floating point.
HalfScale == 500
Scale == 2 * HalfScale

\* Largest spot / strike price (in whole units) and largest expiry (in years)
\* the inputs range over.
MaxPrice == 2
MaxT == 2

\* 365 of 'theta_per_day': theta / 365.
DaysPerYear == 365

------------------------------------------------------------------------------
(* IEEE values and arithmetic *)

Fin(n) == [k |-> "fin", v |-> n]
NaN == [k |-> "nan", v |-> 0]
PInf == [k |-> "pinf", v |-> 0]
NInf == [k |-> "ninf", v |-> 0]
NZero == [k |-> "nz", v |-> 0]
\* A local variable that was never assigned (the function raised before).
Unset == [k |-> "unset", v |-> 0]

Abs(n) == IF n < 0 THEN -n ELSE n

IsNaN(x) == x.k = "nan"
IsInf(x) == x.k \in {"pinf", "ninf"}
IsFinite(x) == x.k \in {"fin", "nz"}
IsZero(x) == IsFinite(x) /\ x.v = 0
\* Sign bit of a non-NaN value: -1 or 1.
Sgn(x) == IF x.k \in {"ninf", "nz"} \/ (x.k = "fin" /\ x.v < 0) THEN -1 ELSE 1

SignedInf(s) == IF s < 0 THEN NInf ELSE PInf
SignedZero(s) == IF s < 0 THEN NZero ELSE Fin(0)
\* A finite result of magnitude m >= 0 and sign s.
Signed(s, m) == IF m = 0 THEN SignedZero(s) ELSE Fin(s * m)

\* -x
FNeg(x) ==
    CASE x.k = "nan" -> NaN
      [] x.k = "pinf" -> NInf
      [] x.k = "ninf" -> PInf
      [] x.k = "nz" -> Fin(0)
      [] OTHER -> IF x.v = 0 THEN NZero ELSE Fin(-x.v)

\* a + b
FAdd(a, b) ==
    CASE IsNaN(a) \/ IsNaN(b) -> NaN
      [] IsInf(a) /\ IsInf(b) -> IF a.k = b.k THEN a ELSE NaN
      [] IsInf(a) -> a
      [] IsInf(b) -> b
      [] a.k = "nz" /\ b.k = "nz" -> NZero
      [] OTHER -> Fin(a.v + b.v)

\* a - b
FSub(a, b) == FAdd(a, FNeg(b))

\* a * b
FMul(a, b) ==
    CASE IsNaN(a) \/ IsNaN(b) -> NaN
      [] (IsInf(a) /\ IsZero(b)) \/ (IsZero(a) /\ IsInf(b)) -> NaN
      [] IsInf(a) \/ IsInf(b) -> SignedInf(Sgn(a) * Sgn(b))
      [] OTHER -> Signed(Sgn(a) * Sgn(b), (Abs(a.v) * Abs(b.v)) \div Scale)

\* a / b with a numpy float operand: division by zero gives inf or nan.
FDiv(a, b) ==
    CASE IsNaN(a) \/ IsNaN(b) -> NaN
      [] IsInf(a) /\ IsInf(b) -> NaN
      [] IsZero(a) /\ IsZero(b) -> NaN
      [] IsInf(a) \/ IsZero(b) -> SignedInf(Sgn(a) * Sgn(b))
      [] IsInf(b) -> SignedZero(Sgn(a) * Sgn(b))
      [] OTHER -> Signed(Sgn(a) * Sgn(b), (Abs(a.v) * Scale) \div Abs(b.v))

------------------------------------------------------------------------------
(* numpy and scipy.stats.norm *)

\* Largest y in lo..hi with y * y <= n (lo * lo <= n < (hi + 1) * (hi + 1)).
RECURSIVE ISqrt(_, _, _)
ISqrt(n, lo, hi) ==
    IF lo >= hi THEN lo
    ELSE LET mid == (lo + hi + 1) \div 2
         IN IF mid * mid <= n THEN ISqrt(n, mid, hi) ELSE ISqrt(n, lo, mid - 1)

\* np.sqrt
np_sqrt(x) ==
    CASE x.k = "nan" -> NaN
      [] x.k = "pinf" -> PInf
      [] x.k = "ninf" -> NaN
      [] x.k = "nz" -> NZero
      [] OTHER -> IF x.v < 0 THEN NaN
                  ELSE Fin(ISqrt(x.v * Scale, 0, 4 * Scale))

\* sum over odd n of z^n / n, from the term zpow = z^n on.
RECURSIVE AtanhSeries(_, _, _, _)
AtanhSeries(z, zpow, n, acc) ==
    IF zpow.v = 0 \/ n > 61 THEN acc
    ELSE AtanhSeries(z, FMul(FMul(zpow, z), z), n + 2,
                     FAdd(acc, Signed(Sgn(zpow), Abs(zpow.v) \div n)))

\* np.log: ln(q) = 2 * atanh((q - 1) / (q + 1)) for q > 0.
np_log(x) ==
    CASE x.k = "nan" -> NaN
      [] x.k = "pinf" -> PInf
      [] x.k = "ninf" -> NaN
      [] IsZero(x) -> NInf
      [] OTHER -> IF x.v < 0 THEN NaN
                  ELSE LET z == FDiv(Fin(x.v - Scale), Fin(x.v + Scale))
                           s == AtanhSeries(z, z, 1, Fin(0))
                       IN Fin(2 * s.v)

\* sum over n of x^n / n!, from the term x^n / n! on.
RECURSIVE ExpSeries(_, _, _, _)
ExpSeries(x, term, n, acc) ==
    IF term.v = 0 \/ n > 40 THEN acc
    ELSE LET p == FMul(term, x)
             next == Signed(Sgn(p), Abs(p.v) \div (n + 1))
         IN ExpSeries(x, next, n + 1, FAdd(acc, term))

\* e^(v / Scale) for an integer v: halve the argument until |v| <= Scale.
RECURSIVE ExpFix(_)
ExpFix(v) ==
    IF Abs(v) <= Scale THEN ExpSeries(Fin(v), Fin(Scale), 0, Fin(0))
    ELSE LET h == v \div 2
         IN FMul(ExpFix(h), ExpFix(v - h))

\* np.exp
np_exp(x) ==
    CASE x.k = "nan" -> NaN
      [] x.k = "pinf" -> PInf
      [] x.k = "ninf" -> Fin(0)
      [] OTHER -> ExpFix(x.v)

\* 1 / sqrt(2 * pi) = 0.398942...
InvSqrt2Pi == Fin((398942 * Scale) \div 1000000)

\* norm.pdf: e^(-x^2 / 2) / sqrt(2 * pi)
norm_pdf(x) ==
    CASE x.k = "nan" -> NaN
      [] IsInf(x) -> Fin(0)
      [] OTHER -> FMul(np_exp(FNeg(FMul(Fin(HalfScale), FMul(x, x)))), InvSqrt2Pi)

\* A decimal constant c / 100000.
Dec5(c) == Fin((c * Scale) \div 100000)

\* Upper tail 1 - Phi(z) for a finite z >= 0.  Near zero it is
\* 0.5 - pdf(0) * (z - z^3/6 + z^5/40 - z^7/336), exactly 0.5 at z = 0;
\* further out it is pdf(z) * poly(1 / (1 + 0.2316419 z)).
UpperTail(z) ==
    IF z.v < (7071 * Scale) \div 10000
    THEN LET z2 == FMul(z, z)
             z3 == FMul(z2, z)
             z5 == FMul(z3, z2)
             z7 == FMul(z5, z2)
             s == z.v - (z3.v \div 6) + (z5.v \div 40) - (z7.v \div 336)
         IN FSub(Fin(HalfScale), FMul(InvSqrt2Pi, Fin(s)))
    ELSE LET t == FDiv(Fin(Scale), FAdd(Fin(Scale), FMul(Dec5(23164), z)))
             p5 == FMul(t, Dec5(133027))
             p4 == FMul(t, FAdd(Dec5(-182126), p5))
             p3 == FMul(t, FAdd(Dec5(178148), p4))
             p2 == FMul(t, FAdd(Dec5(-35656), p3))
             p1 == FMul(t, FAdd(Dec5(31938), p2))
         IN FMul(norm_pdf(z), p1)

\* norm.cdf: computed from the tail of |x|, and 1 - tail for x > 0, so that
\* cdf(-x) = 1 - cdf(x) up to the rounding of the subtraction.
norm_cdf(x) ==
    CASE x.k = "nan" -> NaN
      [] x.k = "pinf" -> Fin(Scale)
      [] x.k = "ninf" -> Fin(0)
      [] OTHER -> IF x.v > 0 THEN FSub(Fin(Scale), UpperTail(x))
                  ELSE UpperTail(Fin(Abs(x.v)))

\* The methods of scipy.stats.norm (an rv_continuous instance).  Looking up
\* any other attribute raises AttributeError.
NormMethods ==
    {"cdf", "pdf", "sf", "ppf", "isf", "logcdf", "logpdf", "logsf", "rvs",
     "stats", "entropy", "fit", "expect", "interval", "mean", "median",
     "moment", "std", "var", "support", "freeze", "nnlf", "fit_loc_scale"}

------------------------------------------------------------------------------
(* Inputs *)

\* The value passed for option_type when the caller leaves it out.
Omitted == "<omitted>"

Prices == {p * Scale : p \in -1..MaxPrice}
Times == {t * Scale : t \in -1..MaxT}
Rates == {-(Scale \div 50), 0, Scale \div 20}
Vols == {-(Scale \div 5), 0, Scale \div 5, (2 * Scale) \div 5}
OptionTypes == {"call", "put", "straddle", Omitted}

Inputs ==
    [S : Prices, K : Prices, T : Times, r : Rates, sigma : Vols,
     option_type : OptionTypes]

\* The inputs the pricing formulas are defined for.
ValidInput(i) == i.S > 0 /\ i.K > 0 /\ i.T > 0 /\ i.sigma > 0

------------------------------------------------------------------------------
(* The three functions of src/general.py *)

\* S / K on Python numbers (the arguments the docstrings show), for K # 0;
\* with K = 0 the division raises ZeroDivisionError, which each function models.
PyDiv(S, K) == Signed(Sgn(Fin(S)) * Sgn(Fin(K)), (Abs(S) * Scale) \div Abs(K))

\* K * np.exp(-r*T)
Discounted(K, T, r) == FMul(Fin(K), np_exp(FMul(FNeg(Fin(r)), Fin(T))))

\* black_scholes_call (K # 0):
\* d1 = (np.log(S / K) + (r + 0.5 * sigma**2) * T) / (sigma * np.sqrt(T))
call_d1(S, K, T, r, sigma) ==
    FDiv(FAdd(np_log(PyDiv(S, K)),
              FMul(FAdd(Fin(r), FMul(Fin(HalfScale), FMul(Fin(sigma), Fin(sigma)))),
                   Fin(T))),
         FMul(Fin(sigma), np_sqrt(Fin(T))))

\* d2 = d1 - sigma * np.sqrt(T)
call_d2(d1, T, sigma) == FSub(d1, FMul(Fin(sigma), np_sqrt(Fin(T))))

\* black_scholes_put (K # 0): d1 and d2.
put_d1_drift_sign(S, K, T, r, sigma) ==
    FDiv(FAdd(np_log(PyDiv(S, K)),
              FMul(FSub(Fin(r), FMul(Fin(HalfScale), FMul(Fin(sigma), Fin(sigma)))),
                   Fin(T))),
         FMul(Fin(sigma), np_sqrt(Fin(T))))

put_d1(S, K, T, r, sigma) ==
    FDiv(FAdd(np_log(PyDiv(S, K)),
              FMul(FAdd(Fin(r), FMul(Fin(HalfScale), FMul(Fin(sigma), Fin(sigma)))),
                   Fin(T))),
         FMul(Fin(sigma), np_sqrt(Fin(T))))

put_d2(d1, T, sigma) == FSub(d1, FMul(Fin(sigma), np_sqrt(Fin(T))))

\* calculate_greeks (K # 0): d1 and d2.
greeks_d1(S, K, T, r, sigma) ==
    FDiv(FAdd(np_log(PyDiv(S, K)),
              FMul(FAdd(Fin(r), FMul(Fin(HalfScale), FMul(Fin(sigma), Fin(sigma)))),
                   Fin(T))),
         FMul(Fin(sigma), np_sqrt(Fin(T))))

greeks_d2(d1, T, sigma) == FSub(d1, FMul(Fin(sigma), np_sqrt(Fin(T))))

\* How a call of a price function ended: kind is "return" (val is the
\* result) or "raise" (exc is the exception); d1, d2 are its locals.
Returned(val, d1, d2) ==
    [kind |-> "return", exc |-> "", val |-> val, d1 |-> d1, d2 |-> d2]
Raised(exc, d1, d2) ==
    [kind |-> "raise", exc |-> exc, val |-> Unset, d1 |-> d1, d2 |-> d2]
Pending ==
    [kind |-> "pending", exc |-> "", val |-> Unset, d1 |-> Unset, d2 |-> Unset]

\* call_price = S * norm.cdf(d1) - K * np.exp(-r*T) * norm.cdf(d2)
call_price(S, K, T, r, d1, d2) ==
    FSub(FMul(Fin(S), norm_cdf(d1)), FMul(Discounted(K, T, r), norm_cdf(d2)))

black_scholes_call(S, K, T, r, sigma) ==
    IF K = 0 THEN Raised("ZeroDivisionError", Unset, Unset)
    ELSE LET d1 == call_d1(S, K, T, r, sigma)
             d2 == call_d2(d1, T, sigma)
         IN Returned(call_price(S, K, T, r, d1, d2), d1, d2)

\* put_price = K * np.exp(-r*T) * norm.cdf(-d2) - S * norm.cdf(-d1)
put_price_same_tail(S, K, T, r, d1, d2) ==
    FSub(FMul(Discounted(K, T, r), norm_cdf(d2)),
         FMul(Fin(S), norm_cdf(FNeg(d1))))

put_price(S, K, T, r, d1, d2) ==
    FSub(FMul(Discounted(K, T, r), norm_cdf(FNeg(d2))),
         FMul(Fin(S), norm_cdf(FNeg(d1))))

black_scholes_put(S, K, T, r, sigma) ==
    IF K = 0 THEN Raised("ZeroDivisionError", Unset, Unset)
    ELSE LET d1 == put_d1(S, K, T, r, sigma)
             d2 == put_d2(d1, T, sigma)
         IN Returned(put_price(S, K, T, r, d1, d2), d1, d2)

\* norm.<name>(x) for a method the model computes.
NormApply(name, x) ==
    CASE name = "cdf" -> norm_cdf(x)
      [] name = "pdf" -> norm_pdf(x)
      [] OTHER -> Unset

\* The norm method the delta lines call: norm.edf.
delta_method == "edf"

\* The three tests of option_type == 'call', one per Greek that has one.
delta_branch(option_type) == IF option_type = "call" THEN "call" ELSE "put"
theta_branch(option_type) == IF option_type = "call" THEN "call" ELSE "put"
rho_branch(option_type) == IF option_type = "call" THEN "call" ELSE "put"

\* delta = norm.edf(d1), or norm.edf(d1) - 1
greeks_delta(option_type, d1) ==
    IF delta_branch(option_type) = "call" THEN NormApply(delta_method, d1)
    ELSE FSub(NormApply(delta_method, d1), Fin(Scale))

\* gamma = norm.pdf(d1)/(S*sigma*np.sqrt(T))
greeks_gamma(S, T, sigma, d1) ==
    FDiv(norm_pdf(d1), FMul(FMul(Fin(S), Fin(sigma)), np_sqrt(Fin(T))))

\* vega = S*norm.pdf(d1) * np.sqrt(T)
greeks_vega(S, T, d1) == FMul(FMul(Fin(S), norm_pdf(d1)), np_sqrt(Fin(T)))

\* first_term = -(S*norm.pdf(d1)*sigma) / (2*np.sqrt(T))
first_term(S, T, sigma, d1) ==
    FDiv(FNeg(FMul(FMul(Fin(S), norm_pdf(d1)), Fin(sigma))),
         FMul(Fin(2 * Scale), np_sqrt(Fin(T))))

\* second_term = -r*K*np.exp(-r*T)*norm.cdf(d2), or r*K*np.exp(-r*T) * norm.cdf(-d2)
second_term(K, T, r, option_type, d2) ==
    IF theta_branch(option_type) = "call"
    THEN FMul(FMul(FMul(FNeg(Fin(r)), Fin(K)), np_exp(FMul(FNeg(Fin(r)), Fin(T)))),
              norm_cdf(d2))
    ELSE FMul(FMul(FMul(Fin(r), Fin(K)), np_exp(FMul(FNeg(Fin(r)), Fin(T)))),
              norm_cdf(FNeg(d2)))

\* theta = first_term + second_term
greeks_theta(S, K, T, r, sigma, option_type, d1, d2) ==
    FAdd(first_term(S, T, sigma, d1), second_term(K, T, r, option_type, d2))

\* rho = K*T*np.exp(-r*T)*norm.cdf(d2), or -K *T*np.exp(-r*T)*norm.cdf(d2)
greeks_rho(K, T, r, option_type, d2) ==
    IF rho_branch(option_type) = "call"
    THEN FMul(FMul(FMul(Fin(K), Fin(T)), np_exp(FMul(FNeg(Fin(r)), Fin(T)))),
              norm_cdf(d2))
    ELSE FMul(FMul(FMul(FNeg(Fin(K)), Fin(T)), np_exp(FMul(FNeg(Fin(r)), Fin(T)))),
              norm_cdf(d2))

\* How a call of calculate_greeks ended: ret holds the returned dict (none
\* when it raised), branches the variants its option_type tests selected, in
\* the order they ran.
GreeksReturned(rec, d1, d2, branches) ==
    [kind |-> "return", exc |-> "", ret |-> {rec}, d1 |-> d1, d2 |-> d2,
     branches |-> branches]
GreeksRaised(exc, d1, d2, branches) ==
    [kind |-> "raise", exc |-> exc, ret |-> {}, d1 |-> d1, d2 |-> d2,
     branches |-> branches]
GreeksPending ==
    [kind |-> "pending", exc |-> "", ret |-> {}, d1 |-> Unset, d2 |-> Unset,
     branches |-> <<>>]

\* calculate_greeks(S,K,T,r,sigma ,option_type='call').  S / K raises for
\* K = 0; the attribute lookup norm.edf raises on the first delta line that
\* runs, before any other Greek is computed.
calculate_greeks(S, K, T, r, sigma, option_arg) ==
    LET option_type == IF option_arg = Omitted THEN "call" ELSE option_arg
    IN IF K = 0 THEN GreeksRaised("ZeroDivisionError", Unset, Unset, <<>>)
       ELSE LET d1 == greeks_d1(S, K, T, r, sigma)
                d2 == greeks_d2(d1, T, sigma)
                theta == greeks_theta(S, K, T, r, sigma, option_type, d1, d2)
            IN IF delta_method \notin NormMethods
               THEN GreeksRaised("AttributeError", d1, d2,
                                 <<delta_branch(option_type)>>)
               ELSE GreeksReturned(
                        [delta |-> greeks_delta(option_type, d1),
                         gamma |-> greeks_gamma(S, T, sigma, d1),
                         vega |-> greeks_vega(S, T, d1),
                         theta |-> theta,
                         theta_per_day |-> FDiv(theta, Fin(DaysPerYear * Scale)),
                         rho |-> greeks_rho(K, T, r, option_type, d2)],
                        d1, d2,
                        <<delta_branch(option_type), theta_branch(option_type),
                          rho_branch(option_type)>>)

------------------------------------------------------------------------------
(* State machine: a caller fixes one set of arguments and runs each of the  *)
(* three functions on it once, in any order.                                *)

VARIABLES inp, callOut, putOut, greeksOut

vars == <<inp, callOut, putOut, greeksOut>>

Init ==
    /\ inp \in Inputs
    /\ callOut = Pending
    /\ putOut = Pending
    /\ greeksOut = GreeksPending

Call ==
    /\ callOut.kind = "pending"
    /\ callOut' = black_scholes_call(inp.S, inp.K, inp.T, inp.r, inp.sigma)
    /\ UNCHANGED <<inp, putOut, greeksOut>>

Put ==
    /\ putOut.kind = "pending"
    /\ putOut' = black_scholes_put(inp.S, inp.K, inp.T, inp.r, inp.sigma)
    /\ UNCHANGED <<inp, callOut, greeksOut>>

Greeks ==
    /\ greeksOut.kind = "pending"
    /\ greeksOut' = calculate_greeks(inp.S, inp.K, inp.T, inp.r, inp.sigma,
                                     inp.option_type)
    /\ UNCHANGED <<inp, callOut, putOut>>

Next == Call \/ Put \/ Greeks

Spec == Init /\ [][Next]_vars

------------------------------------------------------------------------------
(* Properties *)

CallDone == callOut.kind # "pending"
PutDone == putOut.kind # "pending"
GreeksDone == greeksOut.kind # "pending"

\* The d1 and d2 each function that has run was left with.
Locals ==
    (IF CallDone THEN {<<callOut.d1, callOut.d2>>} ELSE {})
    \cup (IF PutDone THEN {<<putOut.d1, putOut.d2>>} ELSE {})
    \cup (IF GreeksDone THEN {<<greeksOut.d1, greeksOut.d2>>} ELSE {})

\* A completed call failed with InvalidInput.
FailedInvalidInput(o) == o.kind = "raise" /\ o.exc = "InvalidInput"

\* The variant the caller asked for ('call' when option_type is left out).
Asked == IF inp.option_type \in {"call", Omitted} THEN "call" ELSE "put"

\* C1: put-call parity.  For valid inputs (S, K, T, sigma > 0, any r) the
\* results of black_scholes_call and black_scholes_put on the same arguments
\* satisfy call - put = S - K * e^(-rT), within one unit of rounding.
C1_PutCallParity ==
    (ValidInput(inp) /\ CallDone /\ PutDone) =>
        /\ callOut.kind = "return" /\ putOut.kind = "return"
        /\ IsFinite(callOut.val) /\ IsFinite(putOut.val)
        /\ Abs((callOut.val.v - putOut.val.v)
               - (inp.S - Discounted(inp.K, inp.T, inp.r).v)) <= 1

\* Both prices were computed for a valid input, in the money and discounted.
C1_Witness ==
    /\ ValidInput(inp) /\ CallDone /\ PutDone
    /\ inp.S > inp.K /\ inp.r > 0
    /\ callOut.val.v > 0 /\ putOut.val.v > 0

\* C2: with T <= 0, sigma <= 0, S <= 0 or K <= 0 each of the three functions
\* fails with InvalidInput and never returns a number.
C2_InvalidInputRejected ==
    ~ValidInput(inp) =>
        /\ CallDone => FailedInvalidInput(callOut)
        /\ PutDone => FailedInvalidInput(putOut)
        /\ GreeksDone => FailedInvalidInput(greeksOut)

\* C3: calculate_greeks with an option_type that is neither 'call' nor 'put'
\* fails with InvalidInput.
C3_UnknownOptionTypeRejected ==
    (GreeksDone /\ inp.option_type \notin {"call", "put", Omitted}) =>
        FailedInvalidInput(greeksOut)

\* C4: for valid inputs and option_type 'call' or 'put', calculate_greeks
\* returns a record with exactly the keys delta, gamma, vega, theta,
\* theta_per_day, rho.
C4_GreeksRecordKeys ==
    (GreeksDone /\ ValidInput(inp) /\ inp.option_type \in {"call", "put"}) =>
        /\ greeksOut.kind = "return"
        /\ \A g \in greeksOut.ret :
               DOMAIN g = {"delta", "gamma", "vega", "theta", "theta_per_day", "rho"}

\* C5: the delta calculate_greeks returns is Phi(d1) for a call and
\* Phi(d1) - 1 for a put.
C5_DeltaIsCdf ==
    (GreeksDone /\ ValidInput(inp) /\ inp.option_type \in {"call", "put"}) =>
        \E g \in greeksOut.ret :
            g.delta = IF inp.option_type = "call" THEN norm_cdf(greeksOut.d1)
                      ELSE FSub(norm_cdf(greeksOut.d1), Fin(Scale))

\* C6: the rho calculate_greeks returns is K*T*e^(-rT)*Phi(d2) for a call and
\* -K*T*e^(-rT)*Phi(-d2) for a put.
C6_RhoFormula ==
    (GreeksDone /\ ValidInput(inp) /\ inp.option_type \in {"call", "put"}) =>
        \E g \in greeksOut.ret :
            LET KTD == FMul(FMul(Fin(inp.K), Fin(inp.T)),
                            np_exp(FMul(FNeg(Fin(inp.r)), Fin(inp.T))))
            IN g.rho = IF inp.option_type = "call"
                       THEN FMul(KTD, norm_cdf(greeksOut.d2))
                       ELSE FNeg(FMul(KTD, norm_cdf(FNeg(greeksOut.d2))))

\* C7: the three functions compute the same d1 and the same d2 from the same
\* arguments: any two of them that have run were left with equal d1 and d2.
C7_SameD1D2 == Cardinality(Locals) <= 1

\* All three functions ran on a valid input, with a finite, nonzero d1 that
\* differs from d2.
C7_Witness ==
    /\ ValidInput(inp) /\ CallDone /\ PutDone /\ GreeksDone
    /\ callOut.d1.k = "fin" /\ callOut.d1.v # 0 /\ greeksOut.d1 # greeksOut.d2

\* C8: in the record calculate_greeks returns, theta is
\* A - r*K*e^(-rT)*Phi(d2) for a call and A + r*K*e^(-rT)*Phi(-d2) for a put,
\* with A = -(S*phi(d1)*sigma) / (2*sqrt(T)), and theta_per_day is theta / 365.
C8_ThetaFormula ==
    (GreeksDone /\ ValidInput(inp) /\ inp.option_type \in {"call", "put"}) =>
        \E g \in greeksOut.ret :
            LET A == FDiv(FNeg(FMul(FMul(Fin(inp.S), norm_pdf(greeksOut.d1)),
                                    Fin(inp.sigma))),
                          FMul(Fin(2 * Scale), np_sqrt(Fin(inp.T))))
                rKD == FMul(FMul(Fin(inp.r), Fin(inp.K)),
                            np_exp(FMul(FNeg(Fin(inp.r)), Fin(inp.T))))
            IN /\ g.theta = IF inp.option_type = "call"
                            THEN FSub(A, FMul(rKD, norm_cdf(greeksOut.d2)))
                            ELSE FAdd(A, FMul(rKD, norm_cdf(FNeg(greeksOut.d2))))
               /\ g.theta_per_day = FDiv(g.theta, Fin(365 * Scale))

\* C9: gamma and vega do not depend on option_type: for either variant the
\* record holds gamma = phi(d1)/(S*sigma*sqrt(T)) and vega = S*phi(d1)*sqrt(T),
\* functions of (S, K, T, r, sigma) alone.
C9_GammaVegaSameForBoth ==
    (GreeksDone /\ ValidInput(inp) /\ inp.option_type \in {"call", "put"}) =>
        \E g \in greeksOut.ret :
            LET d1 == greeks_d1(inp.S, inp.K, inp.T, inp.r, inp.sigma)
            IN /\ g.gamma = FDiv(norm_pdf(d1),
                                 FMul(FMul(Fin(inp.S), Fin(inp.sigma)),
                                      np_sqrt(Fin(inp.T))))
               /\ g.vega = FMul(FMul(Fin(inp.S), norm_pdf(d1)), np_sqrt(Fin(inp.T)))

\* C10: one calculate_greeks call selects the same variant at its three
\* option_type tests (delta, theta, rho): the call formulas for all three
\* exactly when option_type is 'call' or left out, else the put formulas.
C10_BranchesAgree ==
    (GreeksDone /\ ValidInput(inp)) => greeksOut.branches = <<Asked, Asked, Asked>>

====
